---- MODULE Spec2Model ----
(***************************************************************************)
(* The Jules client of aichat (src/src/client/jules.rs): the process-wide  *)
(* SESSION_MAP, and chat_completions_streaming, which resolves or creates  *)
(* a remote session, then polls its activities and renders them into the   *)
(* SseHandler until a sessionCompleted activity or the iteration cap.      *)
(*                                                                         *)
(* One submission is one call of chat_completions_streaming.  Its await    *)
(* points (the HTTP calls) are the boundaries of the actions: everything   *)
(* the function does between two awaits is one atomic step.                *)
(*                                                                         *)
(* The built-in functions (src/src/builtin.rs): run(name, args), a         *)
(* synchronous function of its arguments and of the file system.           *)
(***************************************************************************)
EXTENDS Integers, Sequences, FiniteSets, TLC

VARIABLES
    config,               \* JulesConfig of the client: which settings are present
    registry,             \* SESSION_MAP: conversation key -> remote session id
    pc,                   \* where each submission is in chat_completions_streaming
    session_key,          \* local session_key (line 82)
    jules_session_id,     \* local jules_session_id (line 86)
    session_id,           \* local session_id (line 94)
    processed_activities, \* local HashSet processed_activities (line 149)
    loop_count,           \* local loop_count (line 150)
    sink,                 \* the calls made on the SseHandler, in order
    calls,                \* the HTTP requests issued so far, per endpoint
    last,                 \* the last HTTP response the submission received
    before,               \* processed ids and pushed events when it was received
    result,               \* what the call returned: "pending", "Ok" or the error
    files,                \* the file system run() works on: path -> file
    ran                   \* the call of run() that was made, and what it returned

vars == <<config, registry, pc, session_key, jules_session_id, session_id,
          processed_activities, loop_count, sink, calls, last, before,
          result, files, ran>>

-----------------------------------------------------------------------------
(* Bounds of the exploration *)

\* Spec and SpecRace follow each polling loop for this many iterations.
MaxPolls == 3

\* The longest activities page the remote service returns in Spec.
MaxPageLen == 2

\* SpecRun: the longest file content, search string and replacement.
MaxContent == 3
MaxSearch == 2
MaxReplace == 1

\* let max_loops = 600;
max_loops == 600

Subs == {"u1", "u2"}
Keys == {"k1"}
Ids == {"s1", "s2"}
NoKey == "NoKey"
None == "None"
NoName == "NoName"

-----------------------------------------------------------------------------
(* Activities, as the JSON fields the loop reads *)

\* One artifact of activity["artifacts"]: which of bashOutput / changeSet it has.
Artifact(bash, changeSet) == [bashOutput |-> bash, changeSet |-> changeSet]

\* activity["planGenerated"]["plan"]: absent, or an object with its steps' titles.
NoPlan == [present |-> FALSE, steps |-> <<>>]
Plan(steps) == [present |-> TRUE, steps |-> steps]

\* activity["name"], planGenerated.plan, progressUpdated, artifacts, and whether
\* the key sessionCompleted is present.
Activity(name, plan, progress, artifacts, completed) ==
    [name |-> name, plan |-> plan, progress |-> progress,
     artifacts |-> artifacts, sessionCompleted |-> completed]

Activities ==
    { Activity("a1", NoPlan, TRUE, <<>>, FALSE),
      Activity("a2", Plan(<<"t1", "t2">>), TRUE,
               <<Artifact(TRUE, TRUE), Artifact(FALSE, TRUE)>>, FALSE),
      Activity("a3", NoPlan, TRUE, <<>>, TRUE),
      Activity(NoName, NoPlan, TRUE, <<>>, FALSE),
      Activity(NoName, NoPlan, FALSE, <<>>, TRUE) }

\* The activities the service returns in SpecRace and SpecLoop.
FewActivities ==
    { Activity("a1", NoPlan, TRUE, <<>>, FALSE),
      Activity("a3", NoPlan, TRUE, <<>>, TRUE) }

RECURSIVE SeqsUpTo(_, _)
SeqsUpTo(S, n) ==
    IF n = 0 THEN { <<>> }
    ELSE LET shorter == SeqsUpTo(S, n - 1)
         IN  shorter \cup { Append(s, x) : s \in shorter, x \in S }

\* data["activities"] of a listActivities response, newest first.
Pages == SeqsUpTo(Activities, MaxPageLen)
FewPages == SeqsUpTo(FewActivities, 1)

-----------------------------------------------------------------------------
(* The SseHandler: handler.text(s) and handler.done() as a log of events.   *)
(* src is the id of the activity being rendered: it is not part of the      *)
(* text, it records which iteration of the for loop made the call.  The     *)
(* handler is defined outside this file; it is taken to accept every event  *)
(* (handler.text(..)? never returns an error).                              *)

Text(src, text) == [ev |-> "text", src |-> src, text |-> text]
Done(src) == [ev |-> "done", src |-> src, text |-> <<>>]
TimeoutNotice == Text("-", <<"[Timeout waiting for agent]">>)

\* (mutant of ActivityId) a nameless activity that completes the session gets an
\* id of its own
ActivityIdOfCompletion(activity) ==
    IF activity.name # NoName THEN activity.name
    ELSE IF activity.sessionCompleted THEN "completed" ELSE ""

\* let id = activity["name"].as_str().unwrap_or("");
ActivityId(activity) == IF activity.name = NoName THEN "" ELSE activity.name

\* if let Some(plan) = activity["planGenerated"]["plan"].as_object() { ... }
RenderPlan(id, activity) ==
    IF ~activity.plan.present THEN <<>>
    ELSE <<Text(id, <<"Plan Generated:">>)>>
         \o [i \in 1..Len(activity.plan.steps) |->
                Text(id, <<"-", activity.plan.steps[i]>>)]
         \o <<Text(id, <<"">>)>>

\* if let Some(progress) = activity["progressUpdated"].as_object() { ... }
RenderProgress(id, activity) ==
    IF activity.progress THEN <<Text(id, <<">", "title", "description">>)>> ELSE <<>>

\* one artifact: the bashOutput block, then the changeSet marker
RenderArtifact(id, artifact) ==
    (IF artifact.bashOutput THEN <<Text(id, <<"bash", "command", "output">>)>> ELSE <<>>)
    \o (IF artifact.changeSet THEN <<Text(id, <<"diff", "[Code Change Applied]">>)>> ELSE <<>>)

RECURSIVE RenderArtifacts(_, _, _)
RenderArtifacts(id, artifacts, i) ==
    IF i > Len(artifacts) THEN <<>>
    ELSE RenderArtifact(id, artifacts[i]) \o RenderArtifacts(id, artifacts, i + 1)

\* (mutant of Render) the progress clause is placed before the plan clause
RenderProgressFirst(id, activity) ==
    RenderProgress(id, activity) \o RenderPlan(id, activity)
    \o RenderArtifacts(id, activity.artifacts, 1)

\* lines 187-216: everything one activity pushes, in the order it is pushed
Render(id, activity) ==
    RenderPlan(id, activity) \o RenderProgress(id, activity)
    \o RenderArtifacts(id, activity.artifacts, 1)

-----------------------------------------------------------------------------
(* The for loop over one fetched page (lines 175-226) *)

\* (mutant of rev) list.iter(): the page is walked as listed
revForgotten(list) == list

\* list.iter().rev(): the page is listed newest first and walked oldest first
rev(list) == [i \in 1..Len(list) |-> list[Len(list) + 1 - i]]

\* (mutant of contains) the check of line 179 is dropped
containsNever(processed, id) == FALSE

\* processed_activities.contains(id)
contains(processed, id) == id \in processed

\* (mutant of sessionCompleted) the completion key is never found
sessionCompletedNever(activity) == FALSE

\* activity.get("sessionCompleted").is_some()
sessionCompleted(activity) == activity.sessionCompleted

\* (mutant of ForEach) handler.done() without return Ok(()): the walk goes on
RECURSIVE ForEachNoReturn(_, _, _, _)
ForEachNoReturn(walk, i, processed, pushed) ==
    IF i > Len(walk)
    THEN [processed |-> processed, sink |-> pushed, returned |-> FALSE]
    ELSE LET activity == walk[i]
             id == ActivityId(activity)
             rendered == pushed \o Render(id, activity)
         IN  IF id \in processed
             THEN ForEachNoReturn(walk, i + 1, processed, pushed)
             ELSE ForEachNoReturn(walk, i + 1, processed \cup {id},
                                  IF activity.sessionCompleted
                                  THEN Append(rendered, Done(id)) ELSE rendered)

\* The body of the for loop from the i-th activity of the walk on.  It ends either
\* at the end of the walk (returned FALSE: the outer loop goes on) or with
\* handler.done(); return Ok(()) (returned TRUE).
RECURSIVE ForEach(_, _, _, _)
ForEach(walk, i, processed, pushed) ==
    IF i > Len(walk)
    THEN [processed |-> processed, sink |-> pushed, returned |-> FALSE]
    ELSE LET activity == walk[i]
             id == ActivityId(activity)
         IN  IF contains(processed, id)
             THEN ForEach(walk, i + 1, processed, pushed)
             ELSE LET rendered == pushed \o Render(id, activity)
                  IN  IF sessionCompleted(activity)
                      THEN [processed |-> processed \cup {id},
                            sink |-> Append(rendered, Done(id)),
                            returned |-> TRUE]
                      ELSE ForEach(walk, i + 1, processed \cup {id}, rendered)

\* if let Some(list) = activities { for activity in list.iter().rev() { ... } }
ProcessPage(list, processed, pushed) == ForEach(rev(list), 1, processed, pushed)

-----------------------------------------------------------------------------
(* HTTP responses, as the fields the function reads *)

\* status: "transport_error" (send() failed), "non_success" or "success";
\* body: "ok" when text() / json() can read it, "bad" when they fail;
\* name: data["name"] split at '/', or NoSessionName; hasList: data["activities"] is an
\* array; page: that array.
Response(status, body, name, hasList, page) ==
    [status |-> status, body |-> body, name |-> name, hasList |-> hasList,
     page |-> page]

\* data["name"] is absent or not a string (split never yields zero parts)
NoSessionName == <<>>

NoResponse == Response("none", "bad", NoSessionName, FALSE, <<>>)

\* A session name "sessions/{id}" or a bare "{id}", as its '/'-separated parts.
SessionNames == { <<"sessions", id>> : id \in Ids } \cup { <<id>> : id \in Ids }

Failures ==
    { Response("transport_error", "bad", NoSessionName, FALSE, <<>>),
      Response("non_success", "ok", NoSessionName, FALSE, <<>>),
      Response("success", "bad", NoSessionName, FALSE, <<>>) }

SendResponses == Failures \cup { Response("success", "ok", NoSessionName, FALSE, <<>>) }

CreateResponses ==
    Failures \cup { Response("success", "ok", NoSessionName, FALSE, <<>>) }
    \cup { Response("success", "ok", name, FALSE, <<>>) : name \in SessionNames }

ListResponses(pages) ==
    Failures \cup { Response("success", "ok", NoSessionName, FALSE, <<>>) }
    \cup { Response("success", "ok", NoSessionName, TRUE, page) : page \in pages }

\* name.split('/').last().unwrap_or(&name): the last part (split yields at least
\* one part of a string, so the fallback to the whole name is never taken)
IdOfName(name) == IF Len(name) = 0 THEN "" ELSE name[Len(name)]

-----------------------------------------------------------------------------
(* SESSION_MAP *)

\* SESSION_MAP.read().unwrap().get(session_name).cloned()
get_session_id(map, session_name) == map[session_name]

\* SESSION_MAP.write().unwrap().insert(session_name.to_string(), session_id)
set_session_id(map, session_name, id) == [map EXCEPT ![session_name] = id]

-----------------------------------------------------------------------------
(* chat_completions_streaming *)

NoCalls == [create |-> 0, send |-> 0, list |-> 0, target |-> None]

\* One more request to an endpoint; target is the session id in its URL.
Request(c, endpoint, target) ==
    [c EXCEPT ![endpoint] = @ + 1, !.target = target]

\* The submission returns: Ok(()) after handler.done() ("Completed") or after the
\* timeout notice ("TimedOut"), or Err(error) ("Failed").
Return(p, how, value) ==
    /\ pc' = [pc EXCEPT ![p] = how]
    /\ result' = [result EXCEPT ![p] = value]

\* The errors the function returns, by cause: a missing setting (lines 76-79), a
\* non-success status of sendMessage or createSession (bail! with the body; if
\* text().await? cannot read the body the function returns that error instead,
\* for the same cause), a creation answer without a name (line 137), and an
\* error of reqwest passed on by ? (send().await?, json().await?).
ConfigurationMissing == "ConfigurationMissing"
RemoteRequestFailed == "RemoteRequestFailed"
MalformedResponse == "MalformedResponse"
RequestError == "RequestError"

\* (mutant of SendError) the status of the answer is not looked at
SendErrorLenient(r) == IF r.status = "transport_error" THEN RequestError ELSE "none"

\* lines 98-108: the error, if any, of the answer to sendMessage
SendError(r) ==
    IF r.status = "transport_error" THEN RequestError
    ELSE IF r.status = "non_success" THEN RemoteRequestFailed
    ELSE "none"

\* (mutant of CreateError) a missing name is read as the empty string
CreateErrorLenient(r) ==
    IF r.status = "transport_error" THEN RequestError
    ELSE IF r.status = "non_success" THEN RemoteRequestFailed
    ELSE IF r.body # "ok" THEN RequestError
    ELSE "none"

\* lines 122-138: the error, if any, of the answer to createSession
CreateError(r) ==
    IF r.status = "transport_error" THEN RequestError
    ELSE IF r.status = "non_success" THEN RemoteRequestFailed
    ELSE IF r.body # "ok" THEN RequestError
    ELSE IF r.name = NoSessionName THEN MalformedResponse
    ELSE "none"

\* (mutant of ListError) a non-success status is fatal, as it is for sendMessage
ListErrorStrict(r) ==
    IF r.status = "transport_error" THEN RequestError
    ELSE IF r.status = "non_success" THEN RemoteRequestFailed
    ELSE IF r.body # "ok" THEN RequestError
    ELSE "none"

\* lines 162-172: the error, if any, of the answer to listActivities; a
\* non-success status is none (continue; // Retry?)
ListError(r) ==
    IF r.status = "transport_error" THEN RequestError
    ELSE IF r.status = "non_success" THEN "none"
    ELSE IF r.body # "ok" THEN RequestError
    ELSE "none"

\* (mutant of MissingConfiguration) the settings are read after the session has
\* been requested
MissingConfigurationLate(p) ==
    /\ pc[p] = "start"
    /\ ~(config.api_key /\ config.source)
    /\ calls' = [calls EXCEPT ![p] = Request(@, "create", None)]
    /\ Return(p, "Failed", ConfigurationMissing)
    /\ UNCHANGED <<files, ran, config, registry, session_key, jules_session_id, session_id,
                   processed_activities, loop_count, sink, last, before>>

\* lines 75-79: a setting the function needs is missing (build_client is
\* defined outside this file and is taken to succeed)
MissingConfiguration(p) ==
    /\ pc[p] = "start"
    /\ ~(config.api_key /\ config.source)
    /\ Return(p, "Failed", ConfigurationMissing)
    /\ UNCHANGED <<files, ran, config, registry, session_key, jules_session_id, session_id,
                   processed_activities, loop_count, sink, calls, last, before>>

\* (mutant of Lookup) the registry is not consulted
LookupNothing(key) == None

\* lines 82-86: the registry is read under the input's conversation key, if any
Lookup(key) == IF key = NoKey THEN None ELSE get_session_id(registry, key)

\* lines 75-103: a stored session id is found and the prompt is sent to it
SendMessage(p, key) ==
    /\ pc[p] = "start"
    /\ config.api_key /\ config.source
    /\ Lookup(key) # None
    /\ session_key' = [session_key EXCEPT ![p] = key]
    /\ jules_session_id' = [jules_session_id EXCEPT ![p] = Lookup(key)]
    /\ calls' = [calls EXCEPT ![p] = Request(@, "send", Lookup(key))]
    /\ pc' = [pc EXCEPT ![p] = "sendMessage"]
    /\ UNCHANGED <<files, ran, config, registry, session_id, processed_activities, loop_count,
                   sink, last, before, result>>

\* lines 75-92 and 110-127: no stored session id, a session is requested
CreateSession(p, key) ==
    /\ pc[p] = "start"
    /\ config.api_key /\ config.source
    /\ Lookup(key) = None
    /\ session_key' = [session_key EXCEPT ![p] = key]
    /\ jules_session_id' = [jules_session_id EXCEPT ![p] = None]
    /\ calls' = [calls EXCEPT ![p] = Request(@, "create", None)]
    /\ pc' = [pc EXCEPT ![p] = "createSession"]
    /\ UNCHANGED <<files, ran, config, registry, session_id, processed_activities, loop_count,
                   sink, last, before, result>>

\* (mutant of EnterPolling) the set of processed ids is kept per remote session:
\* the loop starts from what other submissions on that session have processed
EnterPollingInherit(p, id) ==
    /\ session_id' = [session_id EXCEPT ![p] = id]
    /\ processed_activities' =
          [processed_activities EXCEPT ![p] =
              UNION { processed_activities[q] : q \in { q \in Subs : session_id[q] = id } }]
    /\ loop_count' = [loop_count EXCEPT ![p] = 0]
    /\ pc' = [pc EXCEPT ![p] = "Polling"]

\* lines 148-151: the locals of the polling loop
EnterPolling(p, id) ==
    /\ session_id' = [session_id EXCEPT ![p] = id]
    /\ processed_activities' = [processed_activities EXCEPT ![p] = {}]
    /\ loop_count' = [loop_count EXCEPT ![p] = 0]
    /\ pc' = [pc EXCEPT ![p] = "Polling"]

\* (mutant of SendMessageResponse) a stored session that refuses the message is
\* forgotten
SendMessageResponseForgets(p, r) ==
    /\ pc[p] = "sendMessage"
    /\ last' = [last EXCEPT ![p] = r]
    /\ IF SendError(r) = "none"
       THEN /\ EnterPolling(p, jules_session_id[p])
            /\ UNCHANGED <<result, registry>>
       ELSE /\ Return(p, "Failed", SendError(r))
            /\ registry' = set_session_id(registry, session_key[p], None)
            /\ UNCHANGED <<session_id, processed_activities, loop_count>>
    /\ UNCHANGED <<files, ran, config, session_key, jules_session_id, sink, calls,
                   before>>

\* lines 103-109: the answer to sendMessage
SendMessageResponse(p, r) ==
    /\ pc[p] = "sendMessage"
    /\ last' = [last EXCEPT ![p] = r]
    /\ IF SendError(r) = "none"
       THEN /\ EnterPolling(p, jules_session_id[p])
            /\ UNCHANGED result
       ELSE /\ Return(p, "Failed", SendError(r))
            /\ UNCHANGED <<session_id, processed_activities, loop_count>>
    /\ UNCHANGED <<files, ran, config, registry, session_key, jules_session_id, sink, calls,
                   before>>

\* lines 127-146: the answer to createSession
CreateSessionResponse(p, r) ==
    /\ pc[p] = "createSession"
    /\ last' = [last EXCEPT ![p] = r]
    /\ IF CreateError(r) = "none"
       THEN /\ EnterPolling(p, IdOfName(r.name))
            /\ registry' = IF session_key[p] # NoKey
                           THEN set_session_id(registry, session_key[p], IdOfName(r.name))
                           ELSE registry
            /\ UNCHANGED result
       ELSE /\ Return(p, "Failed", CreateError(r))
            /\ UNCHANGED <<registry, session_id, processed_activities, loop_count>>
    /\ UNCHANGED <<files, ran, config, session_key, jules_session_id, sink, calls, before>>

\* lines 153-226: one iteration of the loop that passes the cap check: the count,
\* the sleep, the request, and what is done with its answer r.  The iteration
\* reads and writes only locals of the submission and its handler, so the two
\* awaits inside it are not split into steps.  The exploration follows the loop
\* while loop_count < cap.
ListActivities(p, r, cap) ==
    /\ pc[p] = "Polling"
    /\ ~(loop_count[p] > max_loops)
    /\ loop_count[p] < cap
    /\ loop_count' = [loop_count EXCEPT ![p] = @ + 1]
    /\ calls' = [calls EXCEPT ![p] = Request(@, "list", session_id[p])]
    /\ last' = [last EXCEPT ![p] = r]
    /\ before' = [before EXCEPT ![p] = [processed |-> processed_activities[p],
                                        pushed |-> Len(sink[p])]]
    /\ IF ListError(r) # "none"
       THEN /\ Return(p, "Failed", ListError(r))
            /\ UNCHANGED <<processed_activities, sink>>
       ELSE IF r.status = "non_success" \/ ~r.hasList
       THEN \* continue, or data["activities"] is no array: nothing is processed
            UNCHANGED <<processed_activities, sink, pc, result>>
       ELSE LET done == ProcessPage(r.page, processed_activities[p], sink[p])
            IN  /\ processed_activities' = [processed_activities EXCEPT ![p] = done.processed]
                /\ sink' = [sink EXCEPT ![p] = done.sink]
                /\ IF done.returned
                   THEN Return(p, "Completed", "Ok")
                   ELSE UNCHANGED <<pc, result>>
    /\ UNCHANGED <<files, ran, config, registry, session_key, jules_session_id, session_id>>

\* (mutant of Timeout) the cap check of line 154 is missing: nothing ends the loop
TimeoutNever(p) == FALSE /\ UNCHANGED vars

\* (mutant of Timeout) the timeout also closes the stream with handler.done()
TimeoutWithDone(p) ==
    /\ pc[p] = "Polling"
    /\ loop_count[p] > max_loops
    /\ sink' = [sink EXCEPT ![p] = Append(Append(@, TimeoutNotice), Done("-"))]
    /\ Return(p, "TimedOut", "Ok")
    /\ UNCHANGED <<files, ran, config, registry, session_key, jules_session_id, session_id,
                   processed_activities, loop_count, calls, last, before>>

\* lines 154-157 and 229: the cap is exceeded
Timeout(p) ==
    /\ pc[p] = "Polling"
    /\ loop_count[p] > max_loops
    /\ sink' = [sink EXCEPT ![p] = Append(@, TimeoutNotice)]
    /\ Return(p, "TimedOut", "Ok")
    /\ UNCHANGED <<files, ran, config, registry, session_key, jules_session_id, session_id,
                   processed_activities, loop_count, calls, last, before>>

-----------------------------------------------------------------------------
(* src/src/builtin.rs: strings, the file system, the JSON arguments *)

\* Strings are sequences of characters.
Chars == {"a", "b"}
Strs(n) == SeqsUpTo(Chars, n)

\* The paths a call can name that the file system may hold a file under.  Every
\* other path (the empty path among them) can neither be read nor written.  A
\* file that exists is a regular file the process may read and write.
Paths == {"f"}
NoFile == [exists |-> FALSE, content |-> <<>>]
File(content) == [exists |-> TRUE, content |-> content]

\* args[x].as_str(): None when x is absent or no string, else the string.
NoStr == [given |-> FALSE, value |-> <<>>]
Str(value) == [given |-> TRUE, value |-> value]
NoPath == [given |-> FALSE, value |-> ""]
PathArg(path) == [given |-> TRUE, value |-> path]

ArgNames ==
    {"path", "contents", "search", "replace", "text", "file_pattern", "command",
     "query", "url"}

NoArgs ==
    [path |-> NoPath, contents |-> NoStr, search |-> NoStr, replace |-> NoStr,
     text |-> NoStr, file_pattern |-> NoStr, command |-> NoStr, query |-> NoStr,
     url |-> NoStr]

\* The names run() matches on, and a name it does not know.
Names ==
    {"fs_cat", "fs_ls", "fs_mkdir", "fs_write", "fs_patch", "fs_search",
     "command_run", "web_search", "web_browse"}
UnknownNames == {"fs_remove"}

\* declarations(): "properties" of each function
properties(name) ==
    CASE name \in {"fs_cat", "fs_ls", "fs_mkdir"} -> {"path"}
      [] name = "fs_write" -> {"path", "contents"}
      [] name = "fs_patch" -> {"path", "search", "replace"}
      [] name = "fs_search" -> {"path", "text", "file_pattern"}
      [] name = "command_run" -> {"command"}
      [] name = "web_search" -> {"query"}
      [] name = "web_browse" -> {"url"}
      [] OTHER -> {"path"}

\* declarations(): "required" of each function
required(name) ==
    CASE name \in {"fs_cat", "fs_mkdir"} -> {"path"}
      [] name = "fs_ls" -> {}
      [] name = "fs_write" -> {"path", "contents"}
      [] name = "fs_patch" -> {"path", "search", "replace"}
      [] name = "fs_search" -> {"path", "text"}
      [] name = "command_run" -> {"command"}
      [] name = "web_search" -> {"query"}
      [] name = "web_browse" -> {"url"}
      [] OTHER -> {}

\* The values an argument takes in the calls that are explored.
Values(x) ==
    CASE x = "path" -> {NoPath} \cup { PathArg(path) : path \in Paths }
      [] x = "contents" -> {NoStr} \cup { Str(c) : c \in Strs(MaxReplace) }
      [] x = "search" -> {NoStr} \cup { Str(c) : c \in Strs(MaxSearch) }
      [] x = "replace" -> {NoStr} \cup { Str(c) : c \in Strs(MaxReplace) }
      [] OTHER -> {NoStr, Str(<<>>)}

\* The argument objects a call of name is explored with: any of its declared
\* properties may be given or not.
ArgsOf(name) ==
    LET V(x) == IF x \in properties(name) THEN Values(x) ELSE {NoArgs[x]}
    IN  [path : V("path"), contents : V("contents"), search : V("search"),
         replace : V("replace"), text : V("text"),
         file_pattern : V("file_pattern"), command : V("command"),
         query : V("query"), url : V("url")]

\* Result<Option<Value>> and the file system the call leaves: Ok(Some(..)),
\* Ok(None), Err(..)
Ok_Some(value, fs) == [ok |-> TRUE, value |-> value, error |-> <<>>, files |-> fs]
Ok_None(fs) == [ok |-> TRUE, value |-> "None", error |-> <<>>, files |-> fs]
Err(error, fs) == [ok |-> FALSE, value |-> "None", error |-> error, files |-> fs]

\* anyhow!("Missing {x}"), bail!("Search string not found in file"), and an
\* error of std::fs, std::process or reqwest passed on by ?
MissingError(x) == <<"Missing", x>>
NotFoundError == <<"Search string not found in file">>
IoError == <<"io">>

\* (mutant of Missing) .as_str().unwrap_or(..): an absent argument is defaulted
MissingDefaulted(args, x) == FALSE

\* args[x].as_str().ok_or_else(|| anyhow!("Missing x")) is None
Missing(args, x) == ~args[x].given

\* fs::read_to_string(path) succeeds
Readable(fs, path) == path \in Paths /\ fs[path].exists

\* fs::write(path, ..) succeeds
Writable(fs, path) == path \in Paths

\* search is found in content at position k
MatchAt(content, search, k) ==
    /\ k + Len(search) - 1 <= Len(content)
    /\ SubSeq(content, k, k + Len(search) - 1) = search

\* (mutant of str_contains) the check of line 211 is dropped
str_containsAlways(content, search) == TRUE

\* content.contains(search)
str_contains(content, search) ==
    \E k \in 1..(Len(content) + 1) : MatchAt(content, search, k)

\* content from position i on, with the first count matches of search replaced,
\* scanning left to right over matches that do not overlap (an empty search
\* matches before every character and at the end)
RECURSIVE ReplaceFrom(_, _, _, _, _)
ReplaceFrom(content, i, search, replace, count) ==
    IF count = 0 \/ i + Len(search) - 1 > Len(content)
    THEN SubSeq(content, i, Len(content))
    ELSE IF MatchAt(content, search, i)
    THEN IF Len(search) > 0
         THEN replace \o ReplaceFrom(content, i + Len(search), search, replace, count - 1)
         ELSE IF i > Len(content) THEN replace
         ELSE replace \o <<content[i]>>
              \o ReplaceFrom(content, i + 1, search, replace, count - 1)
    ELSE <<content[i]>> \o ReplaceFrom(content, i + 1, search, replace, count)

\* (mutant of replacen) content.replace(search, replace): every match
str_replace(content, search, replace, count) ==
    ReplaceFrom(content, 1, search, replace, Len(content) + 1)

\* content.replacen(search, replace, count)
replacen(content, search, replace, count) ==
    ReplaceFrom(content, 1, search, replace, count)

\* lines 206-217: the arm "fs_patch"
fs_patch(args, fs) ==
    IF Missing(args, "path") THEN Err(MissingError("path"), fs)
    ELSE IF Missing(args, "search") THEN Err(MissingError("search"), fs)
    ELSE IF Missing(args, "replace") THEN Err(MissingError("replace"), fs)
    ELSE IF ~Readable(fs, args.path.value) THEN Err(IoError, fs)
    ELSE LET path == args.path.value
             content == fs[path].content
         IN  IF ~str_contains(content, args.search.value)
             THEN Err(NotFoundError, fs)
             ELSE LET new_content ==
                          replacen(content, args.search.value, args.replace.value, 1)
                  IN  IF ~Writable(fs, path) THEN Err(IoError, fs)
                      ELSE Ok_Some("success", [fs EXCEPT ![path] = File(new_content)])

\* lines 177-294: run(name, args) on file system fs.  env_ok is whether what the
\* arm asks of its environment beyond the files of fs (a directory listing or
\* creation, a shell command, an HTTP request) succeeds; what a shell command
\* does to the files is not followed.
run(name, args, fs, env_ok) ==
    CASE name = "fs_cat" ->
            IF Missing(args, "path") THEN Err(MissingError("path"), fs)
            ELSE IF ~Readable(fs, args.path.value) THEN Err(IoError, fs)
            ELSE Ok_Some("content", fs)
      [] name = "fs_ls" ->
            IF env_ok THEN Ok_Some("files", fs) ELSE Err(IoError, fs)
      [] name = "fs_mkdir" ->
            IF Missing(args, "path") THEN Err(MissingError("path"), fs)
            ELSE IF env_ok THEN Ok_Some("success", fs) ELSE Err(IoError, fs)
      [] name = "fs_write" ->
            IF Missing(args, "path") THEN Err(MissingError("path"), fs)
            ELSE IF Missing(args, "contents") THEN Err(MissingError("contents"), fs)
            ELSE IF ~Writable(fs, args.path.value) THEN Err(IoError, fs)
            ELSE Ok_Some("success",
                         [fs EXCEPT ![args.path.value] = File(args.contents.value)])
      [] name = "fs_patch" -> fs_patch(args, fs)
      [] name = "fs_search" ->
            IF Missing(args, "path") THEN Err(MissingError("path"), fs)
            ELSE IF Missing(args, "text") THEN Err(MissingError("text"), fs)
            ELSE IF env_ok THEN Ok_Some("results", fs) ELSE Err(IoError, fs)
      [] name = "command_run" ->
            IF Missing(args, "command") THEN Err(MissingError("command"), fs)
            ELSE IF env_ok THEN Ok_Some("stdout", fs) ELSE Err(IoError, fs)
      [] name = "web_search" ->
            IF Missing(args, "query") THEN Err(MissingError("query"), fs)
            ELSE IF env_ok THEN Ok_Some("results", fs) ELSE Err(IoError, fs)
      [] name = "web_browse" ->
            IF Missing(args, "url") THEN Err(MissingError("url"), fs)
            ELSE IF env_ok THEN Ok_Some("content", fs) ELSE Err(IoError, fs)
      [] OTHER -> Ok_None(fs)

\* No call of run() has been made.
NoFiles == [path \in Paths |-> NoFile]
NoRun ==
    [called |-> FALSE, name |-> "", args |-> NoArgs, was |-> NoFiles,
     ok |-> FALSE, value |-> "None", error |-> <<>>]

\* One call of run(): what it was given, the file system it found (was), what
\* it returned, and the file system it leaves.
Run(name, args, env_ok) ==
    /\ ~ran.called
    /\ LET r == run(name, args, files, env_ok)
       IN  /\ files' = r.files
           /\ ran' = [called |-> TRUE, name |-> name, args |-> args, was |-> files,
                      ok |-> r.ok, value |-> r.value, error |-> r.error]
    /\ UNCHANGED <<config, registry, pc, session_key, jules_session_id, session_id,
                   processed_activities, loop_count, sink, calls, last, before,
                   result>>

-----------------------------------------------------------------------------
(* Specifications *)

Settings == [api_key : BOOLEAN, source : BOOLEAN]

\* A fresh process: SESSION_MAP is empty and no submission has started.
InitEmpty ==
    /\ config \in Settings
    /\ registry = [k \in Keys |-> None]
    /\ pc = [p \in Subs |-> "start"]
    /\ session_key = [p \in Subs |-> NoKey]
    /\ jules_session_id = [p \in Subs |-> None]
    /\ session_id = [p \in Subs |-> None]
    /\ processed_activities = [p \in Subs |-> {}]
    /\ loop_count = [p \in Subs |-> 0]
    /\ sink = [p \in Subs |-> <<>>]
    /\ calls = [p \in Subs |-> NoCalls]
    /\ last = [p \in Subs |-> NoResponse]
    /\ before = [p \in Subs |-> [processed |-> {}, pushed |-> 0]]
    /\ result = [p \in Subs |-> "pending"]
    /\ files = NoFiles
    /\ ran = NoRun

\* A process in which earlier submissions may have left a session id in SESSION_MAP.
Init ==
    /\ config \in Settings
    /\ registry \in [Keys -> Ids \cup {None}]
    /\ pc = [p \in Subs |-> "start"]
    /\ session_key = [p \in Subs |-> NoKey]
    /\ jules_session_id = [p \in Subs |-> None]
    /\ session_id = [p \in Subs |-> None]
    /\ processed_activities = [p \in Subs |-> {}]
    /\ loop_count = [p \in Subs |-> 0]
    /\ sink = [p \in Subs |-> <<>>]
    /\ calls = [p \in Subs |-> NoCalls]
    /\ last = [p \in Subs |-> NoResponse]
    /\ before = [p \in Subs |-> [processed |-> {}, pushed |-> 0]]
    /\ result = [p \in Subs |-> "pending"]
    /\ files = NoFiles
    /\ ran = NoRun

\* The steps of one submission up to the polling loop.
Resolve(p) ==
    \/ MissingConfiguration(p)
    \/ \E key \in Keys \cup {NoKey} : SendMessage(p, key)
    \/ \E key \in Keys \cup {NoKey} : CreateSession(p, key)
    \/ \E r \in SendResponses : SendMessageResponse(p, r)
    \/ \E r \in CreateResponses : CreateSessionResponse(p, r)

\* One submission, the first MaxPolls iterations of its loop, any page.
Next ==
    \/ Resolve("u1")
    \/ \E r \in ListResponses(Pages) : ListActivities("u1", r, MaxPolls)

Spec == Init /\ [][Next]_vars

\* Concurrent submissions in a fresh process, the first MaxPolls iterations of
\* each loop, pages of at most one activity.
NextRace ==
    \E p \in Subs :
        \/ Resolve(p)
        \/ \E r \in ListResponses(FewPages) : ListActivities(p, r, MaxPolls)

SpecRace == InitEmpty /\ [][NextRace]_vars

\* One submission through the whole loop, up to the cap.
NextLoop ==
    \/ Resolve("u1")
    \/ \E r \in ListResponses(FewPages) : ListActivities("u1", r, max_loops + 1)
    \/ Timeout("u1")

SpecLoop == Init /\ [][NextLoop]_vars

\* SpecLoop where every network call and every sleep returns: a submission that
\* can take a step eventually takes one (each .await of lines 75-172 completes).
SpecLoopFair == SpecLoop /\ WF_vars(NextLoop)

\* One call of run(), of any name with any arguments, on any file system; no
\* submission runs.
InitRun ==
    /\ config = [api_key |-> TRUE, source |-> TRUE]
    /\ registry = [k \in Keys |-> None]
    /\ pc = [p \in Subs |-> "start"]
    /\ session_key = [p \in Subs |-> NoKey]
    /\ jules_session_id = [p \in Subs |-> None]
    /\ session_id = [p \in Subs |-> None]
    /\ processed_activities = [p \in Subs |-> {}]
    /\ loop_count = [p \in Subs |-> 0]
    /\ sink = [p \in Subs |-> <<>>]
    /\ calls = [p \in Subs |-> NoCalls]
    /\ last = [p \in Subs |-> NoResponse]
    /\ before = [p \in Subs |-> [processed |-> {}, pushed |-> 0]]
    /\ result = [p \in Subs |-> "pending"]
    /\ files \in [Paths -> {NoFile} \cup { File(c) : c \in Strs(MaxContent) }]
    /\ ran = NoRun

NextRun ==
    \E name \in Names \cup UnknownNames : \E args \in ArgsOf(name) :
        \E env_ok \in BOOLEAN : Run(name, args, env_ok)

SpecRun == InitRun /\ [][NextRun]_vars

-----------------------------------------------------------------------------
(* What the claims are stated with *)

ActivityIds == { ActivityId(a) : a \in Activities }

\* The texts pushed to the handler of p while activity id was being rendered.
TextsOf(p, id) == SelectSeq(sink[p], LAMBDA e : e.ev = "text" /\ e.src = id)

\* The events pushed by the latest iteration of p's loop.
Fresh(p) == SubSeq(sink[p], before[p].pushed + 1, Len(sink[p]))

\* The latest answer p received is a page of activities.
Listed(p) == calls[p].list > 0 /\ last[p].hasList

\* The id of the i-th activity of the latest page.
IdAt(p, i) == ActivityId(last[p].page[i])

\* The i-th activity of the latest page is the one the walk meets first under its
\* id, and that id was not processed by an earlier iteration.
Unprocessed(p, i) ==
    /\ IdAt(p, i) \notin before[p].processed
    /\ \A j \in (i + 1)..Len(last[p].page) : IdAt(p, j) # IdAt(p, i)

\* The positions of handler.done() in the events of p.
DoneAt(p) == { i \in DOMAIN sink[p] : sink[p][i].ev = "done" }

-----------------------------------------------------------------------------
(* C1 *)

\* C1: within one submission's polling loop every activity id is rendered at most
\* once, whatever pages are fetched: the texts pushed under an id are those of one
\* rendering of one activity, never of two.
C1_RenderedAtMostOnce ==
    \A p \in Subs : \A id \in ActivityIds :
        \/ TextsOf(p, id) = <<>>
        \/ \E a \in Activities :
              ActivityId(a) = id /\ TextsOf(p, id) = Render(id, a)

\* An activity rendered by an earlier iteration is listed again in the latest
\* page, and its texts are in the sink once.
C1_Witness ==
    \E p \in Subs :
        /\ Listed(p)
        /\ \E i \in DOMAIN last[p].page :
              /\ IdAt(p, i) \in before[p].processed
              /\ Render(IdAt(p, i), last[p].page[i]) # <<>>
              /\ TextsOf(p, IdAt(p, i)) = Render(IdAt(p, i), last[p].page[i])

-----------------------------------------------------------------------------
(* C2 *)

C2_Dispatch(p) ==
    IF pc[p] = "start"
    THEN pc'[p] \in {"sendMessage", "createSession"} =>
           LET key == session_key'[p]
               stored == IF key = NoKey THEN None ELSE registry[key]
           IN  IF stored = None
               THEN calls'[p].create = 1 /\ calls'[p].send = 0
               ELSE calls'[p].send = 1 /\ calls'[p].create = 0
                    /\ calls'[p].target = stored
    ELSE calls'[p].create = calls[p].create /\ calls'[p].send = calls[p].send

\* C2: a submission that finds no session id stored under its conversation key
\* issues one createSession call and no sendMessage call; one that finds an id
\* stored issues one sendMessage call, to that id, and no createSession call; and
\* no later step of the submission issues either call again.
C2_OneCreateOrOneSend == [][\A p \in Subs : C2_Dispatch(p)]_vars

\* One submission created the session, a later one sent its prompt to it.
C2_Witness ==
    /\ calls["u1"].create = 1 /\ calls["u1"].send = 0
    /\ calls["u2"].send = 1 /\ calls["u2"].create = 0
    /\ session_key["u2"] = "k1"
    /\ calls["u2"].target = session_id["u1"]
    /\ pc["u2"] = "Polling"

-----------------------------------------------------------------------------
(* C3 *)

\* C3 as stated: a sessionCompleted activity at any position of a fetched page
\* terminates the loop with success.
C3_AnyCompletionHalts ==
    \A p \in Subs :
        (Listed(p) /\ \E i \in DOMAIN last[p].page : last[p].page[i].sessionCompleted)
        => pc[p] = "Completed" /\ result[p] = "Ok"

\* C3, amended: a sessionCompleted activity whose id is not yet processed when the
\* walk reaches it terminates the loop with success, and no activity listed before
\* it (newer than it) is processed or rendered.
C3_UnprocessedCompletionHalts ==
    \A p \in Subs : Listed(p) =>
        \A i \in DOMAIN last[p].page :
            (last[p].page[i].sessionCompleted /\ Unprocessed(p, i)) =>
                /\ pc[p] = "Completed"
                /\ result[p] = "Ok"
                /\ \A k \in 1..(i - 1) :
                      (/\ IdAt(p, k) \notin before[p].processed
                       /\ \A j \in i..Len(last[p].page) : IdAt(p, j) # IdAt(p, k))
                      => /\ IdAt(p, k) \notin processed_activities[p]
                         /\ TextsOf(p, IdAt(p, k)) = <<>>

\* The page lists a new activity before the completion: it is left unrendered.
C3_Witness ==
    \E p \in Subs :
        /\ Listed(p)
        /\ Len(last[p].page) = 2
        /\ last[p].page[2].sessionCompleted
        /\ Unprocessed(p, 2)
        /\ Render(IdAt(p, 1), last[p].page[1]) # <<>>
        /\ IdAt(p, 1) \notin processed_activities[p]
        /\ pc[p] = "Completed"

-----------------------------------------------------------------------------
(* C4 *)

\* C4 as stated: a submission whose first 600 iterations saw no completion, and
\* that did not fail, ends with one timeout notice and success.
C4_TimeoutAfter600 ==
    \A p \in Subs :
        (loop_count[p] > max_loops /\ pc[p] \notin {"Polling", "Failed"})
        => /\ pc[p] = "TimedOut"
           /\ result[p] = "Ok"
           /\ Len(SelectSeq(sink[p], LAMBDA e : e = TimeoutNotice)) = 1

-----------------------------------------------------------------------------
(* C5 *)

\* C5 as stated: no failure of listActivities, non-success status or transport
\* error, aborts the submission.
C5_NoListFailureAborts ==
    \A p \in Subs :
        (calls[p].list > 0 /\ last[p].status \in {"non_success", "transport_error"})
        => pc[p] # "Failed"

\* C5, amended: a non-success status of listActivities never aborts the
\* submission, the iteration processes nothing and the loop goes on, one more
\* iteration counted; a transport error aborts the submission with that error.
C5_StatusFailureSkipped ==
    \A p \in Subs : calls[p].list > 0 =>
        /\ last[p].status = "non_success" =>
              /\ pc[p] \in {"Polling", "TimedOut"}
              /\ processed_activities[p] = before[p].processed
              /\ pc[p] = "Polling" => Len(sink[p]) = before[p].pushed
              /\ loop_count[p] = calls[p].list
        /\ last[p].status = "transport_error" =>
              pc[p] = "Failed" /\ result[p] = RequestError

\* After output was pushed, a later poll is answered with a non-success status.
C5_Witness ==
    \E p \in Subs :
        /\ calls[p].list >= 2
        /\ last[p].status = "non_success"
        /\ sink[p] # <<>>
        /\ pc[p] = "Polling"

-----------------------------------------------------------------------------
(* C6 *)

\* C6 as stated: once a session id is stored under a conversation key, the
\* mapping of that key never changes.
C6_StableOnceEstablished ==
    [][\A k \in Keys : registry[k] # None => registry'[k] = registry[k]]_vars

-----------------------------------------------------------------------------
(* C7 *)

\* C7: of two unprocessed activities of one page, the one listed later has all
\* its texts pushed before any text of the one listed earlier.
C7_OldestFirst ==
    \A p \in Subs : Listed(p) =>
        \A i, j \in DOMAIN last[p].page :
            (i < j /\ Unprocessed(p, i) /\ Unprocessed(p, j)) =>
                \A x, y \in DOMAIN Fresh(p) :
                    (Fresh(p)[x].src = IdAt(p, i) /\ Fresh(p)[y].src = IdAt(p, j))
                    => y < x

\* Two unprocessed activities of one page were both rendered.
C7_Witness ==
    \E p \in Subs :
        /\ Listed(p)
        /\ \E i, j \in DOMAIN last[p].page :
              /\ i < j /\ Unprocessed(p, i) /\ Unprocessed(p, j)
              /\ \E x, y \in DOMAIN Fresh(p) :
                    Fresh(p)[x].src = IdAt(p, i) /\ Fresh(p)[y].src = IdAt(p, j)

-----------------------------------------------------------------------------
(* C8 *)

C8_Completed(p) ==
    /\ pc[p] = "Completed" <=> DoneAt(p) # {}
    /\ pc[p] = "Completed" => result[p] = "Ok" /\ DoneAt(p) = {Len(sink[p])}

C8_Final(p) ==
    pc[p] = "Completed" =>
        calls'[p] = calls[p] /\ sink'[p] = sink[p] /\ pc'[p] = "Completed"

\* C8: the loop reaches Completed exactly when handler.done() is called, once, as
\* the last event of the sink, and the submission returns Ok; from then on the
\* submission issues no request and pushes nothing.
C8_CompletedIsFinal ==
    /\ [](\A p \in Subs : C8_Completed(p))
    /\ [][\A p \in Subs : C8_Final(p)]_vars

\* The second poll carried the completion, after a first poll that rendered text.
C8_Witness ==
    \E p \in Subs :
        /\ pc[p] = "Completed"
        /\ calls[p].list = 2
        /\ before[p].pushed > 0

-----------------------------------------------------------------------------
(* C9 *)

\* The answer p received to createSession is a success without a name.
C9_Nameless(p) ==
    /\ calls[p].create = 1 /\ calls[p].list = 0 /\ pc[p] # "createSession"
    /\ last[p].status = "success" /\ last[p].body = "ok"
    /\ last[p].name = NoSessionName

\* C9: a successful creation answer without a name field fails the submission
\* with MalformedResponse, stores no session id under the conversation key, and
\* no poll, text or done follows.
C9_NamelessCreationFails ==
    \A p \in Subs :
        /\ C9_Nameless(p) =>
              /\ pc[p] = "Failed" /\ result[p] = MalformedResponse
              /\ session_key[p] # NoKey => registry[session_key[p]] = None
        /\ result[p] = MalformedResponse =>
              pc[p] = "Failed" /\ calls[p].list = 0 /\ sink[p] = <<>>

\* A submission with a conversation key got a creation answer without a name.
C9_Witness ==
    \E p \in Subs :
        C9_Nameless(p) /\ session_key[p] = "k1" /\ result[p] = MalformedResponse

-----------------------------------------------------------------------------
(* C10 *)

\* The answer p received to createSession or sendMessage is a non-success status.
C10_Refused(p) ==
    /\ calls[p].list = 0
    /\ pc[p] \notin {"start", "sendMessage", "createSession"}
    /\ last[p].status = "non_success"

\* C10: a non-success status of createSession or sendMessage fails the submission
\* with RemoteRequestFailed, and it never polls, pushes text or signals done.
C10_RefusedRequestAborts ==
    \A p \in Subs :
        /\ C10_Refused(p) => pc[p] = "Failed" /\ result[p] = RemoteRequestFailed
        /\ result[p] = RemoteRequestFailed =>
              pc[p] = "Failed" /\ calls[p].list = 0 /\ sink[p] = <<>>

\* sendMessage to a stored session was refused.
C10_Witness ==
    \E p \in Subs :
        C10_Refused(p) /\ calls[p].send = 1 /\ result[p] = RemoteRequestFailed

-----------------------------------------------------------------------------
(* C11 *)

\* C11 as stated: a submission issues at most 600 listActivities calls.
C11_AtMost600Lists == \A p \in Subs : calls[p].list <= max_loops

-----------------------------------------------------------------------------
(* C12 *)

\* C12 as stated: with an API key, a submission for a conversation key that has
\* a stored session id proceeds to sendMessage, whether or not a source context
\* is configured.
C12_ResumeNeedsNoSource ==
    \A p \in Subs : \A key \in Keys :
        (pc[p] = "start" /\ config.api_key /\ get_session_id(registry, key) # None)
        => ENABLED SendMessage(p, key)

-----------------------------------------------------------------------------
(* C13 *)

\* A step that takes p out of its start while a setting is missing.
C13_StartsUnconfigured(p) ==
    pc[p] = "start" /\ pc'[p] # "start" /\ ~(config.api_key /\ config.source)

\* C13: a submission that starts while the API key or the source context is
\* missing fails with ConfigurationMissing in that step, which issues no remote
\* call and leaves the registry and the handler's events as they were; and a
\* submission that failed so has never issued a call or pushed an event.
C13_MissingSettingFailsFirst ==
    /\ [](\A p \in Subs :
            result[p] = ConfigurationMissing
            => pc[p] = "Failed" /\ calls[p] = NoCalls /\ sink[p] = <<>>)
    /\ [][\A p \in Subs :
            C13_StartsUnconfigured(p)
            => /\ pc'[p] = "Failed" /\ result'[p] = ConfigurationMissing
               /\ registry' = registry /\ calls' = calls /\ sink' = sink]_vars

\* The source context is missing where the submission would have to create a
\* session, and the submission has failed.
C13_Witness ==
    \E p \in Subs :
        /\ config.api_key /\ ~config.source
        /\ \A key \in Keys : get_session_id(registry, key) = None
        /\ result[p] = ConfigurationMissing

-----------------------------------------------------------------------------
(* C17 *)

\* Everything pushed to the handler of p while activity id was being rendered.
EventsOf(p, id) == SelectSeq(sink[p], LAMBDA e : e.src = id)

\* The place of an event in the order of the clauses: the plan's header, its
\* bullets, its blank line, the progress line, the artifacts, handler.done().
C17_Rank(e) ==
    IF e.ev = "done" THEN 6
    ELSE CASE e.text[1] = "Plan Generated:" -> 1
           [] e.text[1] = "-" -> 2
           [] e.text[1] = "" -> 3
           [] e.text[1] = ">" -> 4
           [] OTHER -> 5

\* C17: what one activity pushes is in the order plan (header, one bullet per
\* step in the plan's order, blank line), progress, artifacts in listed order
\* with the bash block before the change marker of the same artifact, and
\* handler.done() comes after all of that activity's text.
C17_ClausesInOrder ==
    \A p \in Subs :
        /\ \A id \in ActivityIds :
              LET es == EventsOf(p, id)
              IN  \A i, j \in DOMAIN es : i < j => C17_Rank(es[i]) <= C17_Rank(es[j])
        /\ [i \in DOMAIN TextsOf(p, "a2") |-> TextsOf(p, "a2")[i].text]
              \in { <<>>,
                    << <<"Plan Generated:">>, <<"-", "t1">>, <<"-", "t2">>, <<"">>,
                       <<">", "title", "description">>,
                       <<"bash", "command", "output">>,
                       <<"diff", "[Code Change Applied]">>,
                       <<"diff", "[Code Change Applied]">> >> }
        /\ [i \in DOMAIN EventsOf(p, "a3") |-> EventsOf(p, "a3")[i].ev]
              \in { <<>>, <<"text", "done">> }

\* One page brought the activity with a plan, progress and two artifacts, and the
\* completing activity with progress; both were rendered.
C17_Witness ==
    \E p \in Subs :
        /\ calls[p].list = 1
        /\ Len(TextsOf(p, "a2")) = 8
        /\ Len(EventsOf(p, "a3")) = 2
        /\ pc[p] = "Completed"

-----------------------------------------------------------------------------
(* C19 *)

\* Everything that belongs to submission p alone.
C19_Locals(p) ==
    <<pc[p], session_key[p], jules_session_id[p], session_id[p],
      processed_activities[p], loop_count[p], sink[p], calls[p], last[p],
      before[p], result[p]>>

\* C19: the set of processed ids belongs to one submission and starts empty:
\* it holds exactly the ids that this submission rendered to its own handler,
\* whatever another submission on the same remote session has rendered; and a
\* step of one submission changes nothing of another but the shared registry.
C19_ProcessedSetIsPrivate ==
    /\ [](\A p \in Subs :
            processed_activities[p] = { sink[p][i].src : i \in DOMAIN sink[p] })
    /\ [][\A p \in Subs :
            /\ (pc[p] # "Polling" /\ pc'[p] = "Polling")
                 => processed_activities'[p] = {}
            /\ C19_Locals(p)' # C19_Locals(p)
                 => \A q \in Subs \ {p} : C19_Locals(q)' = C19_Locals(q)]_vars

\* Two submissions poll the same remote session, and the activity one of them
\* rendered first was then rendered by the other as well.
C19_Witness ==
    /\ session_id["u1"] = "s1" /\ session_id["u2"] = "s1"
    /\ before["u2"].processed = {} /\ "a1" \in before["u1"].processed
    /\ TextsOf("u1", "a1") # <<>>
    /\ TextsOf("u2", "a1") # <<>>

-----------------------------------------------------------------------------
(* C20 *)

\* C20: handler.done() is called at most once per submission and only by the
\* step that completes it; a submission that timed out or failed has not
\* called it, whatever it rendered before.
C20_DoneOnlyOnCompletion ==
    \A p \in Subs :
        /\ Cardinality(DoneAt(p)) <= 1
        /\ DoneAt(p) # {} => pc[p] = "Completed" /\ DoneAt(p) = {Len(sink[p])}
        /\ pc[p] \in {"TimedOut", "Failed"} => DoneAt(p) = {}

\* A submission rendered an activity and then ran into the timeout.
C20_Witness ==
    \E p \in Subs :
        /\ pc[p] = "TimedOut"
        /\ TextsOf(p, "a1") # <<>>
        /\ sink[p][Len(sink[p])] = TimeoutNotice

-----------------------------------------------------------------------------
(* C18 *)

\* The submission has returned.
C18_Terminated(p) == pc[p] \in {"Completed", "TimedOut", "Failed"}

\* A step of p's loop whose listActivities answer is a non-success status.
C18_SoftFailure(p) ==
    /\ pc[p] = "Polling" /\ calls'[p].list = calls[p].list + 1
    /\ last'[p].status = "non_success"

\* C18: when every network call and sleep returns, the submission eventually
\* terminates; an iteration whose listActivities answer is a non-success status
\* still advances the loop counter by one, and a submission all of whose polls
\* were such answers has reached the cap and timed out.
C18_EventuallyTerminates ==
    /\ <>C18_Terminated("u1")
    /\ [][\A p \in Subs :
            C18_SoftFailure(p)
            => loop_count'[p] = loop_count[p] + 1 /\ pc'[p] = "Polling"]_vars

\* The submission timed out after the cap, its last answer a non-success
\* status, having rendered nothing.
C18_Witness ==
    /\ pc["u1"] = "TimedOut"
    /\ loop_count["u1"] = max_loops + 1
    /\ last["u1"].status = "non_success"
    /\ sink["u1"] = <<TimeoutNotice>>

-----------------------------------------------------------------------------
(* C14 *)

\* The call of run() names a function and lacks an argument that the function's
\* declaration requires.
C14_Incomplete ==
    /\ ran.called /\ ran.name \in Names
    /\ \E x \in required(ran.name) : ~ran.args[x].given

\* The call of run() names a function that run() does not know.
C14_Unknown == ran.called /\ ran.name \notin Names

\* C14 as stated: run(name, args) fails with an error when the named function is
\* unknown and when a required argument is absent.
C14_UnknownOrIncompleteFails == (C14_Unknown \/ C14_Incomplete) => ~ran.ok

\* C14, amended: a call that lacks a required argument fails with the error
\* that names a missing argument, and writes nothing; a call of an unknown name
\* does not fail: it returns Ok(None), and writes nothing.
C14_IncompleteFailsUnknownIsNone ==
    /\ C14_Incomplete
         => /\ ~ran.ok
            /\ \E x \in required(ran.name) :
                  ~ran.args[x].given /\ ran.error = MissingError(x)
            /\ files = ran.was
    /\ C14_Unknown
         => ran.ok /\ ran.value = "None" /\ files = ran.was

\* A call of an unknown name, with an argument, has returned Ok(None).
C14_Witness == C14_Unknown /\ ran.args.path.given /\ ran.ok /\ ran.value = "None"

-----------------------------------------------------------------------------
(* C15 *)

\* The call was fs_patch with all its arguments, on a file that exists.
PatchedFile ==
    /\ ran.called /\ ran.name = "fs_patch"
    /\ ran.args.path.given /\ ran.args.search.given /\ ran.args.replace.given
    /\ ran.args.path.value \in Paths
    /\ ran.was[ran.args.path.value].exists

\* The positions at which the search string occurred in the file.
Occurrences ==
    LET content == ran.was[ran.args.path.value].content
        search == ran.args.search.value
    IN  { k \in 1..(Len(content) + 1) :
            /\ k + Len(search) - 1 <= Len(content)
            /\ \A i \in 1..Len(search) : content[k + i - 1] = search[i] }

\* C15: fs_patch with a search string that does not occur in the file fails
\* with the not-found error and leaves every file as it was.
C15_AbsentSearchFailsWithoutWrite ==
    (PatchedFile /\ Occurrences = {})
    => ~ran.ok /\ ran.error = NotFoundError /\ files = ran.was

\* fs_patch was called on a file with content, with a search string that is not
\* in it.
C15_Witness ==
    /\ PatchedFile /\ Occurrences = {}
    /\ Len(ran.was["f"].content) = 2
    /\ Len(ran.args.search.value) = 1
    /\ ran.error = NotFoundError

-----------------------------------------------------------------------------
(* C16 *)

\* C16: fs_patch with a search string that occurs in the file returns success,
\* and the file becomes what it was with the first occurrence replaced: the
\* text before it and the text after it, later occurrences among it, stay.
C16_FirstOccurrenceReplaced ==
    (PatchedFile /\ Occurrences # {})
    => LET path == ran.args.path.value
           content == ran.was[path].content
           first == CHOOSE k \in Occurrences : \A j \in Occurrences : k <= j
           rest == first + Len(ran.args.search.value)
       IN  /\ ran.ok /\ ran.value = "success"
           /\ files = [ran.was EXCEPT ![path] =
                          File(SubSeq(content, 1, first - 1)
                               \o ran.args.replace.value
                               \o SubSeq(content, rest, Len(content)))]

\* The search string occurred twice; the first occurrence was replaced by
\* another character and the second is still there.
C16_Witness ==
    /\ PatchedFile /\ ran.ok
    /\ ran.was["f"].content = <<"a", "b", "a">>
    /\ ran.args.search.value = <<"a">>
    /\ files["f"].content = <<"b", "b", "a">>

-----------------------------------------------------------------------------
(* C21 *)

\* The latest page of p came after a nameless activity had been processed.
C21_AfterNameless(p) == Listed(p) /\ "" \in before[p].processed

\* C21: all nameless activities have the id "": in one submission at most one
\* of them ever acts on the handler; once one is processed, a page pushes
\* nothing under that id, and a page of nameless activities only, a
\* sessionCompleted one among them or not, pushes nothing, adds no id and leaves
\* the loop running.
C21_NamelessShareOneId ==
    \A p \in Subs :
        /\ Len(EventsOf(p, "")) <= 1
        /\ C21_AfterNameless(p)
             => /\ \A i \in DOMAIN Fresh(p) : Fresh(p)[i].src # ""
                /\ (\A i \in DOMAIN last[p].page : last[p].page[i].name = NoName)
                     => /\ Fresh(p) = <<>>
                        /\ processed_activities[p] = before[p].processed
                        /\ pc[p] = "Polling"

\* After a nameless progress activity was rendered, a page brought a nameless
\* sessionCompleted activity, and the submission is still polling.
C21_Witness ==
    \E p \in Subs :
        /\ C21_AfterNameless(p)
        /\ Len(last[p].page) = 1
        /\ last[p].page[1].name = NoName /\ last[p].page[1].sessionCompleted
        /\ Len(TextsOf(p, "")) = 1
        /\ pc[p] = "Polling"

-----------------------------------------------------------------------------
(* C22 *)

\* The step is the answer to p's createSession, p has a conversation key, and
\* the answer is a success that carries a name.
C22_KeyedCreation(p) ==
    /\ pc[p] = "createSession" /\ pc'[p] = "Polling"
    /\ session_key[p] # NoKey
    /\ last'[p].status = "success" /\ last'[p].name # NoSessionName

\* C22: a step changes the registry only if it is the successful, named answer
\* to the createSession of a submission with a conversation key, and then only
\* the entry of that key; a configured submission without a key always requests
\* a new session, and no step of it, and no step of a submission that resumes a
\* stored session, changes the registry.
C22_RegistryWrittenOnKeyedCreation ==
    /\ [](\A p \in Subs :
            (session_key[p] = NoKey /\ pc[p] # "start"
             /\ result[p] # ConfigurationMissing)
            => calls[p].create = 1 /\ calls[p].send = 0)
    /\ [][/\ registry' # registry
             => \E p \in Subs :
                   /\ C22_KeyedCreation(p)
                   /\ \A k \in Keys \ {session_key[p]} : registry'[k] = registry[k]
          /\ \A p \in Subs :
                (/\ C19_Locals(p)' # C19_Locals(p)
                 /\ pc[p] # "start"
                 /\ session_key[p] = NoKey \/ calls[p].send = 1)
                => registry' = registry]_vars

\* One submission stored the session it created under its key; another, with no
\* key, created a session of its own, which the registry does not hold.
C22_Witness ==
    \E p, q \in Subs :
        /\ session_key[p] = "k1" /\ calls[p].create = 1 /\ pc[p] = "Polling"
        /\ registry["k1"] = session_id[p]
        /\ session_key[q] = NoKey /\ calls[q].create = 1 /\ pc[q] = "Polling"
        /\ session_id[q] # registry["k1"]

====
